---------------------------- MODULE Spec2Model ----------------------------
(***************************************************************************)
(* LocalizedField (localized_fields/fields/field.py): the conversions      *)
(* between the stored hstore value and the in-memory LocalizedValue, and   *)
(* the cleaning and validation done before a value is stored.              *)
(*                                                                         *)
(* The field holds no mutable state: every operation is a function of the  *)
(* field's null attribute, the settings and its argument.  One behaviour   *)
(* of the model is one call: Init draws the field, the settings and the    *)
(* argument, an action performs the call and records its outcome.          *)
(***************************************************************************)
EXTENDS Integers, Sequences, FiniteSets, TLC

\* Longest text (in characters) held for a language or passed as a string.
MaxLen == 1

\* Longest list passed to an operation.
MaxList == 1

---------------------------------------------------------------------------
(* settings.py *)

LANGUAGE_CODE == "en"

LANGUAGES == << <<"en", "English">>, <<"ro", "Romanian">>, <<"nl", "Dutch">> >>

\* The language codes of settings.LANGUAGES.
LangCodes == {LANGUAGES[i][1] : i \in 1..Len(LANGUAGES)}

\* The name of the optional setting read by from_db_value.
EXPERIMENTAL == "LOCALIZED_FIELDS_EXPERIMENTAL"

\* getattr(settings, name, default)
GetSetting(s, name, default) == IF name \in DOMAIN s THEN s[name] ELSE default

---------------------------------------------------------------------------
(* Python values, tagged by their type.  A text is a sequence of           *)
(* characters, so that '' is the empty sequence.                           *)

None == <<"None">>
PyStr(s) == <<"str", s>>
PyInt(n) == <<"int", n>>
PyDict(f) == <<"dict", f>>
PyList(q) == <<"list", q>>
LocalizedValue(f) == <<"LocalizedValue", f>>

TypeOf(v) == v[1]
IsNone(v) == TypeOf(v) = "None"
IsStr(v) == TypeOf(v) = "str"
IsInt(v) == TypeOf(v) = "int"
IsDict(v) == TypeOf(v) = "dict"
IsList(v) == TypeOf(v) = "list"
IsLocalizedValue(v) == TypeOf(v) = "LocalizedValue"

\* bool(v): None, '', 0, {} and [] are falsy.  A LocalizedValue holds one
\* entry per configured language, so it is truthy like any non-empty mapping.
Truthy(v) ==
    CASE IsNone(v) -> FALSE
      [] IsStr(v) -> Len(v[2]) > 0
      [] IsInt(v) -> v[2] # 0
      [] IsDict(v) -> DOMAIN v[2] # {}
      [] IsList(v) -> Len(v[2]) > 0
      [] IsLocalizedValue(v) -> DOMAIN v[2] # {}

\* The outcome of a call: a returned value or a raised exception.
NoValue == <<"no value">>
Return(v) == [raised |-> "none", value |-> v]
Raise(e) == [raised |-> e, value |-> NoValue]

---------------------------------------------------------------------------
(* LocalizedValue (localized_fields/value.py) *)

\* value.get(language): the entry held for the language, None when absent.
LVGet(value, language) ==
    IF language \in DOMAIN value[2] THEN value[2][language] ELSE None

\* value.__dict__: the per-language entries as a plain dict.
LVDict(value) == PyDict(value[2])

\* hasattr(value, name): only a LocalizedValue has an attribute per language.
HasAttr(value, name) == IsLocalizedValue(value) /\ name \in DOMAIN value[2]

\* getattr(value, name)
GetAttr(value, name) == value[2][name]

\* LocalizedValue(keys): every configured language starts as None; a string
\* is the primary language's text, a dict gives the configured languages it
\* holds, a list is interpreted element by element, each element starting
\* over, and anything else leaves every language None.
RECURSIVE LVNew(_)
LVNew(keys) ==
    LET empty == [l \in LangCodes |-> None]
    IN  CASE IsStr(keys) ->
               LocalizedValue([empty EXCEPT ![LANGUAGE_CODE] = keys])
          [] IsDict(keys) ->
               LocalizedValue([l \in LangCodes |->
                   IF l \in DOMAIN keys[2] THEN keys[2][l] ELSE None])
          [] IsList(keys) /\ Len(keys[2]) > 0 ->
               LVNew(keys[2][Len(keys[2])])
          [] OTHER -> LocalizedValue(empty)

---------------------------------------------------------------------------
(* HStoreField (the base class) *)

\* The decimal digit n as a character.
Digit(n) == <<"0", "1", "2", "3", "4", "5", "6", "7", "8", "9">>[n + 1]

\* str(v) of a stored entry: a string is itself, a one-digit integer its
\* digit, None the text 'None'.
ToStr(v) ==
    CASE IsStr(v) -> v
      [] IsInt(v) -> PyStr(<<Digit(v[2])>>)
      [] IsNone(v) -> PyStr(<<"N", "o", "n", "e">>)
      [] OTHER -> v

\* HStoreField.get_prep_value: the entries of a dict and the items of a list
\* are turned into strings, None entries are kept.
HStoreGetPrepValue(value) ==
    CASE IsDict(value) ->
           PyDict([k \in DOMAIN value[2] |->
               IF value[2][k] = None THEN None ELSE ToStr(value[2][k])])
      [] IsList(value) ->
           PyList([i \in 1..Len(value[2]) |-> ToStr(value[2][i])])
      [] OTHER -> value

\* The keys a stored dict can have: the configured languages and one that
\* is not configured, in the order they are written in JSON.
KeyOrder == <<"en", "ro", "nl", "fr">>
DictKeys == {KeyOrder[i] : i \in 1..Len(KeyOrder)}
KeyChars(k) ==
    CASE k = "en" -> <<"e", "n">>
      [] k = "ro" -> <<"r", "o">>
      [] k = "nl" -> <<"n", "l">>
      [] k = "fr" -> <<"f", "r">>

Quoted(chars) == <<"\"">> \o chars \o <<"\"">>

\* json.dumps(v), without whitespace.
RECURSIVE JsonDumps(_)
RECURSIVE JsonMembers(_, _, _)
RECURSIVE JsonItems(_, _, _)
JsonMembers(f, i, first) ==
    IF i > Len(KeyOrder) THEN <<>>
    ELSE IF KeyOrder[i] \notin DOMAIN f THEN JsonMembers(f, i + 1, first)
    ELSE (IF first THEN <<>> ELSE <<",">>)
         \o Quoted(KeyChars(KeyOrder[i])) \o <<":">> \o JsonDumps(f[KeyOrder[i]])
         \o JsonMembers(f, i + 1, FALSE)
JsonItems(q, i, first) ==
    IF i > Len(q) THEN <<>>
    ELSE (IF first THEN <<>> ELSE <<",">>)
         \o JsonDumps(q[i]) \o JsonItems(q, i + 1, FALSE)
JsonDumps(v) ==
    CASE IsNone(v) -> <<"n", "u", "l", "l">>
      [] IsStr(v) -> Quoted(v[2])
      [] IsInt(v) -> <<Digit(v[2])>>
      [] IsDict(v) -> <<"{">> \o JsonMembers(v[2], 1, TRUE) \o <<"}">>
      [] IsList(v) -> <<"[">> \o JsonItems(v[2], 1, TRUE) \o <<"]">>

---------------------------------------------------------------------------
(* The inputs *)

Alphabet == {"a"}

Texts == UNION {[1..n -> Alphabet] : n \in 0..MaxLen}

\* What a language can hold: None or a text.
FieldValues == {None} \cup {PyStr(t) : t \in Texts}

LocalizedValues == {LocalizedValue(f) : f \in [LangCodes -> FieldValues]}

\* Stored dicts: any of the keys, each with None or a text.
Dicts == {PyDict(f) : f \in UNION {[K -> FieldValues] : K \in SUBSET DictKeys}}

Ints == {PyInt(0), PyInt(1)}

\* Lists of entries, as decoded from JSON.
FlatLists == {PyList(q) : q \in UNION {[1..n -> FieldValues] : n \in 0..MaxList}}

\* Lists as an aggregation returns them: entries and whole stored values.
ListItems == FieldValues \cup {PyDict(f) : f \in [LangCodes -> FieldValues]}
              \cup {PyDict(<<>>)}
Lists == {PyList(q) : q \in UNION {[1..n -> ListItems] : n \in 0..MaxList}}

\* The values a JSON text of the model decodes to, and the table of their
\* encodings.
JsonValues == {None} \cup {PyStr(t) : t \in Texts} \cup Ints \cup Dicts \cup FlatLists
JsonTable == {<<JsonDumps(v), v>> : v \in JsonValues}

\* Strings: the texts (none of them is valid JSON), a truncated JSON text,
\* and the JSON encodings.
Strs == {PyStr(t) : t \in Texts} \cup {PyStr(<<"{">>)}
          \cup {PyStr(p[1]) : p \in JsonTable}

\* What can be read from the database or passed by a caller instead of a
\* LocalizedValue.
PlainValues == {None} \cup Dicts \cup Strs \cup Ints \cup Lists

Values == LocalizedValues \cup PlainValues

\* json.loads(s): the value s encodes, JSONDecodeError when it encodes none.
JsonLoads(s) ==
    IF \E p \in JsonTable : p[1] = s
    THEN Return((CHOOSE p \in JsonTable : p[1] = s)[2])
    ELSE Raise("JSONDecodeError")

\* HStoreField.to_python: a string is decoded as JSON.
HStoreToPython(value) ==
    IF IsStr(value) THEN JsonLoads(value[2]) ELSE Return(value)

---------------------------------------------------------------------------
(* LocalizedField *)

\* One item of the list from_db_value is given.
FromDbItem(inner_val) ==
    IF IsDict(inner_val)
    THEN IF IsNone(inner_val) THEN None ELSE LVNew(inner_val)
    ELSE inner_val

\* from_db_value reading the setting with the default True.
FromDbValueDefaultOn(s, value) ==
    IF ~Truthy(value)
    THEN IF GetSetting(s, EXPERIMENTAL, TRUE) THEN None ELSE LVNew(None)
    ELSE IF IsList(value)
    THEN PyList([i \in 1..Len(value[2]) |-> FromDbItem(value[2][i])])
    ELSE IF ~IsDict(value) THEN value
    ELSE LVNew(value)

\* LocalizedField.from_db_value
FromDbValue(s, value) ==
    IF ~Truthy(value)
    THEN IF GetSetting(s, EXPERIMENTAL, FALSE) THEN None ELSE LVNew(None)
    ELSE IF IsList(value)
    THEN PyList([i \in 1..Len(value[2]) |-> FromDbItem(value[2][i])])
    ELSE IF ~IsDict(value) THEN value
    ELSE LVNew(value)

\* to_python without the except clause: the decoding error propagates.
ToPythonPropagates(value) ==
    LET base == HStoreToPython(value)
    IN  IF base.raised # "none" THEN base
        ELSE IF ~Truthy(base.value) THEN Return(LVNew(None))
        ELSE Return(LVNew(base.value))

\* LocalizedField.to_python
ToPython(value) ==
    LET base == HStoreToPython(value)
        deserialized_value == IF base.raised = "JSONDecodeError" THEN value
                              ELSE base.value
    IN  IF base.raised \notin {"none", "JSONDecodeError"} THEN base
        ELSE IF ~Truthy(deserialized_value) THEN Return(LVNew(None))
        ELSE Return(LVNew(deserialized_value))

\* The loop of clean over settings.LANGUAGES, from position i on.
RECURSIVE IsAllNullFrom(_, _)
IsAllNullFrom(value, i) ==
    IF i > Len(LANGUAGES) THEN TRUE
    ELSE IF LVGet(value, LANGUAGES[i][1]) # None THEN FALSE
    ELSE IsAllNullFrom(value, i + 1)

\* clean with the all-empty test dropping "and self.null".
CleanIgnoresNull(self_null, value) ==
    IF ~Truthy(value) \/ ~IsLocalizedValue(value) THEN None
    ELSE IF IsAllNullFrom(value, 1) THEN None
    ELSE value

\* clean testing bool(value.get(lang_code)) instead of "is not None".
CleanByTruthiness(self_null, value) ==
    IF ~Truthy(value) \/ ~IsLocalizedValue(value) THEN None
    ELSE IF (\A l \in LangCodes : ~Truthy(LVGet(value, l))) /\ self_null THEN None
    ELSE value

\* LocalizedField.clean
Clean(self_null, value) ==
    IF ~Truthy(value) \/ ~IsLocalizedValue(value) THEN None
    ELSE IF IsAllNullFrom(value, 1) /\ self_null THEN None
    ELSE value

\* validate testing "not primary_lang_val" instead of "is None".
ValidateByTruthiness(self_null, value) ==
    IF self_null THEN Return(None)
    ELSE IF ~HasAttr(value, LANGUAGE_CODE) THEN Raise("AttributeError")
    ELSE IF ~Truthy(GetAttr(value, LANGUAGE_CODE)) THEN Raise("IntegrityError")
    ELSE Return(None)

\* LocalizedField.validate
Validate(self_null, value) ==
    IF self_null THEN Return(None)
    ELSE IF ~HasAttr(value, LANGUAGE_CODE) THEN Raise("AttributeError")
    ELSE IF GetAttr(value, LANGUAGE_CODE) = None THEN Raise("IntegrityError")
    ELSE Return(None)

\* get_prep_value storing only the languages that are filled in.
GetPrepValueDropsNone(self_null, value) ==
    LET known == IF ~IsLocalizedValue(value) /\ Truthy(value)
                 THEN None ELSE value
        cleaned_value == IF Truthy(known) THEN Clean(self_null, known)
                         ELSE known
        validated == IF Truthy(known) THEN Validate(self_null, cleaned_value)
                     ELSE Return(None)
        filled == {l \in LangCodes : LVGet(cleaned_value, l) # None}
    IN  IF validated.raised # "none" THEN validated
        ELSE Return(HStoreGetPrepValue(
                 IF Truthy(cleaned_value)
                 THEN PyDict([l \in filled |-> LVGet(cleaned_value, l)])
                 ELSE None))

\* LocalizedField.get_prep_value
GetPrepValue(self_null, value) ==
    LET known == IF ~IsLocalizedValue(value) /\ Truthy(value)
                 THEN None ELSE value
        cleaned_value == IF Truthy(known) THEN Clean(self_null, known)
                         ELSE known
        validated == IF Truthy(known) THEN Validate(self_null, cleaned_value)
                     ELSE Return(None)
    IN  IF validated.raised # "none" THEN validated
        ELSE Return(HStoreGetPrepValue(
                 IF Truthy(cleaned_value) THEN LVDict(cleaned_value)
                 ELSE None))

---------------------------------------------------------------------------
(* The state machine *)

VARIABLES
    null,       \* the field's null attribute
    settings,   \* the optional settings that are set
    arg,        \* the argument of the call
    op,         \* the operation called, "none" before the call
    outcome     \* what the call returned or raised

vars == <<null, settings, arg, op, outcome>>

Init ==
    /\ null \in BOOLEAN
    /\ settings \in UNION {[S -> BOOLEAN] : S \in SUBSET {EXPERIMENTAL}}
    /\ arg \in Values
    /\ op = "none"
    /\ outcome = Return(None)

\* Each operation is called once, on the argument drawn by Init.
CallGetPrepValue ==
    /\ op = "none"
    /\ op' = "get_prep_value"
    /\ outcome' = GetPrepValue(null, arg)
    /\ UNCHANGED <<null, settings, arg>>

CallClean ==
    /\ op = "none"
    /\ op' = "clean"
    /\ outcome' = Return(Clean(null, arg))
    /\ UNCHANGED <<null, settings, arg>>

CallValidate ==
    /\ op = "none"
    /\ op' = "validate"
    /\ outcome' = Validate(null, arg)
    /\ UNCHANGED <<null, settings, arg>>

\* from_db_value and to_python are given what the database or a form holds.
CallFromDbValue ==
    /\ op = "none"
    /\ arg \in PlainValues
    /\ op' = "from_db_value"
    /\ outcome' = Return(FromDbValue(settings, arg))
    /\ UNCHANGED <<null, settings, arg>>

CallToPython ==
    /\ op = "none"
    /\ arg \in PlainValues
    /\ op' = "to_python"
    /\ outcome' = ToPython(arg)
    /\ UNCHANGED <<null, settings, arg>>

Next ==
    \/ CallGetPrepValue
    \/ CallClean
    \/ CallValidate
    \/ CallFromDbValue
    \/ CallToPython

Spec == Init /\ [][Next]_vars

---------------------------------------------------------------------------
(* The claims *)

EmptyLocalizedValue == LocalizedValue([l \in LangCodes |-> None])
EmptyText == PyStr(<<>>)
IsAllNone(value) == \A l \in LangCodes : LVGet(value, l) = None

\* C1: on a field with null=False, get_prep_value of a LocalizedValue whose
\* primary-language entry is None raises IntegrityError and returns nothing,
\* whatever the other languages hold.
C1_PrimaryNoneRaises ==
    (op = "get_prep_value" /\ ~null /\ IsLocalizedValue(arg)
        /\ LVGet(arg, LANGUAGE_CODE) = None)
    => outcome = Raise("IntegrityError")

C1_Witness ==
    /\ op = "get_prep_value" /\ ~null /\ IsLocalizedValue(arg)
    /\ LVGet(arg, LANGUAGE_CODE) = None
    /\ LVGet(arg, "ro") # None
    /\ outcome.raised = "IntegrityError"

\* A stored result whose primary-language entry is filled in.
PrimaryStored(v) ==
    IsDict(v) /\ LANGUAGE_CODE \in DOMAIN v[2] /\ v[2][LANGUAGE_CODE] # None

\* C2: on a field with null=False, get_prep_value of any value (a
\* LocalizedValue, None or another object) either raises IntegrityError or
\* returns a mapping whose primary-language entry is not null.
C2_PrimaryAlwaysMandatory ==
    (op = "get_prep_value" /\ ~null)
    => \/ outcome.raised = "IntegrityError"
       \/ outcome.raised = "none" /\ PrimaryStored(outcome.value)

\* C3: on a field with null=False, get_prep_value of an illegal value (truthy
\* and not a LocalizedValue) raises IntegrityError, as it does for a
\* LocalizedValue with every language None.
C3_IllegalValueRaises ==
    (op = "get_prep_value" /\ ~null /\ ~IsLocalizedValue(arg) /\ Truthy(arg))
    => /\ outcome = Raise("IntegrityError")
       /\ outcome = GetPrepValue(null, EmptyLocalizedValue)

\* C4: a non-null result of get_prep_value for a LocalizedValue is a dict
\* with exactly the configured languages as keys, each entry being what the
\* LocalizedValue holds for that language.
C4_PrepValueIsPerLanguageDict ==
    (op = "get_prep_value" /\ IsLocalizedValue(arg)
        /\ outcome.raised = "none" /\ outcome.value # None)
    => /\ IsDict(outcome.value)
       /\ DOMAIN outcome.value[2] = LangCodes
       /\ \A l \in LangCodes : outcome.value[2][l] = LVGet(arg, l)

C4_Witness ==
    /\ op = "get_prep_value" /\ IsLocalizedValue(arg)
    /\ LVGet(arg, "en") = PyStr(<<"a">>)
    /\ LVGet(arg, "ro") = None
    /\ LVGet(arg, "nl") = EmptyText
    /\ outcome.raised = "none" /\ IsDict(outcome.value)

\* C5: clean returns None for an all-None LocalizedValue on a nullable field,
\* the value itself for every other LocalizedValue, and None for a falsy or
\* non-LocalizedValue input.
C5_Clean ==
    op = "clean" =>
      /\ outcome.raised = "none"
      /\ (IsLocalizedValue(arg) /\ null /\ IsAllNone(arg))
            => outcome.value = None
      /\ (IsLocalizedValue(arg) /\ ~(null /\ IsAllNone(arg)))
            => outcome.value = arg
      /\ (~Truthy(arg) \/ ~IsLocalizedValue(arg))
            => outcome.value = None

C5_Witness ==
    /\ op = "clean" /\ null /\ IsLocalizedValue(arg) /\ IsAllNone(arg)
    /\ outcome.value = None

\* C6: '' is a filled-in value: with null=False a LocalizedValue whose
\* primary-language entry is '' passes validate and get_prep_value, which
\* stores ''; with null=True a LocalizedValue whose only non-None entries
\* are '' is returned by clean as it is.
C6_EmptyStringIsFilled ==
    /\ (~null /\ IsLocalizedValue(arg) /\ LVGet(arg, LANGUAGE_CODE) = EmptyText)
        => /\ op = "validate" => outcome.raised = "none"
           /\ op = "get_prep_value" =>
                /\ outcome.raised = "none"
                /\ IsDict(outcome.value)
                /\ outcome.value[2][LANGUAGE_CODE] = EmptyText
    /\ (op = "clean" /\ null /\ IsLocalizedValue(arg) /\ ~IsAllNone(arg)
          /\ \A l \in LangCodes : LVGet(arg, l) \in {None, EmptyText})
        => outcome = Return(arg)

C6_Witness ==
    /\ op = "get_prep_value" /\ ~null /\ IsLocalizedValue(arg)
    /\ LVGet(arg, LANGUAGE_CODE) = EmptyText
    /\ IsDict(outcome.value)
    /\ outcome.value[2][LANGUAGE_CODE] = EmptyText

\* C7: from_db_value of None or an empty mapping returns an all-None
\* LocalizedValue when LOCALIZED_FIELDS_EXPERIMENTAL is off or unset and None
\* when it is on; of a non-empty dict it returns, whatever the setting, a
\* LocalizedValue holding the dict's value for each configured language.
C7_FromDbValue ==
    op = "from_db_value" =>
      /\ outcome.raised = "none"
      /\ arg \in {None, PyDict(<<>>)} =>
           IF EXPERIMENTAL \in DOMAIN settings /\ settings[EXPERIMENTAL]
           THEN outcome.value = None
           ELSE outcome.value = EmptyLocalizedValue
      /\ (IsDict(arg) /\ DOMAIN arg[2] # {}) =>
           /\ IsLocalizedValue(outcome.value)
           /\ DOMAIN outcome.value[2] = LangCodes
           /\ \A l \in LangCodes :
                outcome.value[2][l] =
                    IF l \in DOMAIN arg[2] THEN arg[2][l] ELSE None

C7_Witness ==
    /\ op = "from_db_value" /\ arg = None
    /\ EXPERIMENTAL \notin DOMAIN settings
    /\ outcome.value = EmptyLocalizedValue

\* C8: to_python returns a LocalizedValue for every input and never raises
\* or returns None: an empty or None input gives every language None, and a
\* string that is not valid JSON is given as it is to the LocalizedValue
\* constructor (the primary language then holds it).
C8_ToPythonAlwaysLocalizedValue ==
    op = "to_python" =>
      /\ outcome.raised = "none"
      /\ IsLocalizedValue(outcome.value)
      /\ DOMAIN outcome.value[2] = LangCodes
      /\ ~Truthy(arg) => outcome.value = EmptyLocalizedValue
      /\ (IsStr(arg) /\ Truthy(arg) /\ JsonLoads(arg[2]).raised # "none")
            => /\ outcome.value = LVNew(arg)
               /\ LVGet(outcome.value, LANGUAGE_CODE) = arg

C8_Witness ==
    /\ op = "to_python" /\ arg = PyStr(<<"a">>)
    /\ JsonLoads(arg[2]).raised = "JSONDecodeError"
    /\ outcome.raised = "none"
    /\ LVGet(outcome.value, LANGUAGE_CODE) = arg

=============================================================================
